---- MODULE Spec2Model ----
(***************************************************************************)
(* PortLens backend: the portfolio status lifecycle (start_analysis,       *)
(* get_db, analyze_portfolio, lifespan, reset_stuck_portfolios) and the    *)
(* enhanced mock analysis engine (generate_enhanced_mock_analysis).        *)
(*                                                                         *)
(* The database is the committed state (status, analysis); every request   *)
(* and every background run works in its own SQLAlchemy session, whose     *)
(* reads and pending writes are kept in the request's / run's record until *)
(* its commit.  All coroutines run on one asyncio event loop, so the code  *)
(* between two awaits is one atomic action.                                *)
(***************************************************************************)
EXTENDS Integers, Sequences, FiniteSets, TLC

\* ------------------------------------------------------------------ bounds
\* start_analysis requests and the background runs they queue that can be in
\* progress at the same time (a slot is used again once its run is over)
MaxTasks == 2

Portfolios == {"p1"}
ReqIds == 1..MaxTasks

\* Python's None
None == "None"

\* ------------------------------------------------------- models/models.py
PENDING == "pending"
PROCESSING == "processing"
COMPLETED == "completed"
FAILED == "failed"
PortfolioStatus == {PENDING, PROCESSING, COMPLETED, FAILED}

\* Portfolio URLs and portfolio ids (str(uuid.uuid4())) used as inputs.
Url1 == "https://dribbble.com/example"
Url2 == "https://www.behance.net/example"
Id1 == "3f2b8c1e-5d47-4a9b-8e6f-0c1d2a3b4c5d"
Id2 == "9a7c6e5d-4b3a-4f2e-8d1c-0b9a8f7e6d5c"

\* The source_url a portfolio can have: submitted by URL, or uploaded (None).
SourceUrls == {Url1, None}

\* Python truthiness of an Optional[str]
StrTruthy(s) == s # None /\ s # ""

VARIABLES
    source_url,        \* portfolios.source_url, per portfolio (never updated)
    files,             \* committed: the portfolio has image files on disk
    status,            \* committed portfolios.status, per portfolio
    analysis,          \* committed analyses row of the portfolio
    reqs,              \* start_analysis requests (handler position, session)
    runs,              \* analyze_portfolio background runs, by queuing request
    phase,             \* "starting" (lifespan startup) or "serving"
    gemini_available,  \* module global GEMINI_AVAILABLE of this process
    sweep,             \* the reset_stuck_portfolios task of this process
    orphaned,          \* history: portfolios left in processing by the last restart
    rng,               \* state of the process-wide generator of module random
    calls,             \* calls of generate_enhanced_mock_analysis awaiting the fetch
    last,              \* history: the call of the mock engine that returned last
    persisted,         \* history: one run of lines 108-164 alone, its reply and its row
    report,            \* history: the dict one call of the mock engine returned
    probe              \* history: one evaluation of a tagging step of the engine

lifeVars == <<source_url, files, status, analysis, reqs, runs, phase, gemini_available, sweep, orphaned>>

mockVars == <<rng, calls, last>>

pureVars == <<persisted, report, probe>>

vars == <<lifeVars, mockVars, pureVars>>

\* --------------------------------------------------------- Python values
\* What analysis_result can hold: its Python type, its len() and the
\* provenance keys set on it.
NoResult == [type |-> "NoneType", len |-> 0, ai_generated |-> FALSE, model_used |-> None]

\* bool(x) of a result value
Truthy(v) == v.type # "NoneType" /\ v.len > 0

\* ---------------------------------------------------------------- records
IdleReq == [pc |-> "idle", pid |-> None, read |-> None]

\* No row of table analyses for the portfolio.
NoAnalysis == [exists |-> FALSE, filled |-> FALSE, ai_generated |-> FALSE, model_used |-> None]

IdleRun == [pc |-> "none", pid |-> None, loaded |-> None,
            new_files |-> FALSE, result |-> NoResult,
            added |-> FALSE, ai_failed |-> FALSE, row |-> NoAnalysis]

NoSweep == [pc |-> "none", stuck |-> {}]

\* ------------------------------------------------------------ main.py
\* Names bound in the module namespace of app.main by its imports.
MainGlobals == {"asynccontextmanager", "FastAPI", "CORSMiddleware", "settings", "init_db", "router"}

\* asyncio.create_task(reset_stuck_portfolios()): the name asyncio is looked
\* up first; when it is unbound the NameError is caught by the handler's own
\* except clause and no task exists.
SweepTaskCreated == "asyncio" \in MainGlobals

\* lifespan startup: init_db, then the attempt to launch the sweep.
LifespanStartup(created) ==
    /\ phase = "starting"
    /\ phase' = "serving"
    /\ sweep' = IF created THEN [pc |-> "scheduled", stuck |-> {}] ELSE NoSweep
    /\ UNCHANGED <<source_url, files, status, analysis, reqs, runs, gemini_available, orphaned>>
    /\ UNCHANGED <<mockVars, pureVars>>

lifespan == LifespanStartup(SweepTaskCreated)

\* ------------------------------------------------- api/v1/analysis.py, get_db
\* A slot can take a new request when its last request is answered and the
\* run that request queued is over (its session closed, its locals gone).
SlotFree(i) == reqs[i].pc \in {"idle", "rejected", "not_found"} /\ runs[i].pc = "none"

\* The users that send requests, the owner of every portfolio of the model,
\* and an id no portfolio has.
Users == {"owner", "other"}
Owner(p) == "owner"
MissingId == "missing"

\* A status check that refuses nothing.
StatusCheckOpen(st) == "flushed"

\* Lines 37-41: HTTP 400 when the status read is processing.
StatusCheck(st) == IF st = PROCESSING THEN "rejected" ELSE "flushed"

\* Lines 25-35: the select filters on the id and on the user; with no row
\* the handler raises HTTP 404 before it touches anything.
start_analysis_not_found(i, user, portfolio_id) ==
    /\ phase = "serving"
    /\ SlotFree(i)
    /\ \A j \in ReqIds : j < i => ~SlotFree(j)
    /\ ~(portfolio_id \in Portfolios /\ Owner(portfolio_id) = user)
    /\ reqs' = [reqs EXCEPT ![i] = [pc |-> "not_found", pid |-> None, read |-> None]]
    /\ UNCHANGED <<source_url, files, status, analysis, runs, phase, gemini_available, sweep, orphaned>>
    /\ UNCHANGED <<mockVars, pureVars>>

\* start_analysis up to its return: select the portfolio, refuse when the
\* status read is processing, else set processing in the request's session,
\* flush, and add the background task.
start_analysis(i, p) ==
    /\ phase = "serving"
    /\ SlotFree(i)
    /\ \A j \in ReqIds : j < i => ~SlotFree(j)
    /\ reqs' = [reqs EXCEPT ![i] =
                  [pc |-> StatusCheck(status[p]), pid |-> p, read |-> status[p]]]
    /\ UNCHANGED <<source_url, files, status, analysis, runs, phase, gemini_available, sweep, orphaned>>
    /\ UNCHANGED <<mockVars, pureVars>>

\* api/v1/analysis.py, lines 50-55: the response of start_analysis when it
\* accepts the request.  An Optional[int] is a sequence of at most one number.
StartAnalysisResponse == [status |-> PROCESSING, progress |-> <<0>>, message |-> "Analysis started"]

\* get_analysis_status, lines 77-97: the response for a portfolio whose
\* status is read as `st`; progress and message start as None.
get_analysis_status(st) ==
    CASE st = PENDING    -> [status |-> st, progress |-> <<>>, message |-> "Waiting to start"]
      [] st = PROCESSING -> [status |-> st, progress |-> <<50>>, message |-> "Analysis in progress"]
      [] st = COMPLETED  -> [status |-> st, progress |-> <<100>>, message |-> "Analysis complete"]
      [] st = FAILED     -> [status |-> st, progress |-> <<0>>, message |-> "Analysis failed"]

\* get_db after the handler returned: session.commit(); the background task
\* added by the handler is started after it.
get_db_commit(i) ==
    /\ phase = "serving"
    /\ reqs[i].pc = "flushed"
    /\ LET p == reqs[i].pid IN
        /\ status' = [status EXCEPT ![p] = PROCESSING]
        /\ runs' = [runs EXCEPT ![i] = [IdleRun EXCEPT !.pc = "queued", !.pid = p]]
    /\ reqs' = [reqs EXCEPT ![i] = IdleReq]
    /\ orphaned' = orphaned \ {reqs[i].pid}
    /\ UNCHANGED <<source_url, files, analysis, phase, gemini_available, sweep>>
    /\ UNCHANGED <<mockVars, pureVars>>

\* ------------------------------------------------ services/ai_service.py
\* What the ORM flushes for `portfolio.status = value` on an object whose
\* status attribute was loaded as `loaded`: an UPDATE only when the value
\* differs from the loaded one, else the committed column is left alone.
FlushStatus(current, loaded, value) == IF loaded = value THEN current ELSE value

\* Line 108 (after the images are known): Gemini is tried, else the mock engine.
AfterImages(images) == IF gemini_available /\ images THEN "gemini" ELSE "mock"

\* analyze_portfolio, lines 60-80: open the session, select the portfolio
\* (its status is loaded here), collect the image files.
run_load(i) ==
    /\ phase = "serving"
    /\ runs[i].pc = "queued"
    /\ LET p == runs[i].pid
           images == files[p]
       IN runs' = [runs EXCEPT ![i] = [@ EXCEPT
                     !.loaded = status[p],
                     !.pc = IF ~images /\ StrTruthy(source_url[p]) THEN "scrape" ELSE AfterImages(images)]]
    /\ UNCHANGED <<source_url, files, status, analysis, reqs, phase, gemini_available, sweep, orphaned>>
    /\ UNCHANGED <<mockVars, pureVars>>

\* Lines 80-98: capture_portfolio_screenshots; scraped images are added to the
\* session and flushed; any exception of the scrape is swallowed.
run_scrape(i) ==
    /\ phase = "serving"
    /\ runs[i].pc = "scrape"
    /\ \E scraped \in BOOLEAN :
        runs' = [runs EXCEPT ![i] = [@ EXCEPT
                   !.new_files = scraped, !.pc = AfterImages(scraped)]]
    /\ UNCHANGED <<source_url, files, status, analysis, reqs, phase, gemini_available, sweep, orphaned>>
    /\ UNCHANGED <<mockVars, pureVars>>

\* The replies of the Gemini call: the wait_for timeout, an API error, and the
\* text forms of a reply (no JSON in it, undecodable JSON, a JSON number, null,
\* array or object inside a ```json fence).
GeminiReplies == {"timeout", "api_error", "no_json", "bad_json", "json_number", "json_null",
                  "json_empty_list", "json_list", "json_object"}

\* analyze_with_gemini, lines 190-262, as seen through wait_for: it raises, or
\* returns json.loads(...) after the score loop.  `key in result` raises
\* TypeError on a number and on None, and is False on a list, so a list is
\* returned as it is.
AnalyzeWithGeminiRaises(reply) ==
    reply \in {"timeout", "api_error", "no_json", "bad_json", "json_number", "json_null"}

AnalyzeWithGeminiValue(reply) ==
    CASE reply = "json_object"       -> [type |-> "dict", len |-> 5, ai_generated |-> FALSE, model_used |-> None]
      [] reply = "json_list"         -> [type |-> "list", len |-> 1, ai_generated |-> FALSE, model_used |-> None]
      [] reply = "json_empty_list"   -> [type |-> "list", len |-> 0, ai_generated |-> FALSE, model_used |-> None]
      [] OTHER                       -> NoResult

\* Lines 109-121: analysis_result after the try statement.  The assignment of
\* line 111 has happened when line 115 raises TypeError on a value that does
\* not support item assignment, so the value stays in analysis_result.
GeminiAttempt(reply) ==
    IF AnalyzeWithGeminiRaises(reply) THEN NoResult
    ELSE LET v == AnalyzeWithGeminiValue(reply) IN
         IF v.type = "dict"
         THEN [v EXCEPT !.len = @ + 2, !.ai_generated = TRUE, !.model_used = "gemini-2.0-flash-exp"]
         ELSE v

\* The Gemini attempt failed: timeout, exception, or a reply that is no JSON object.
GeminiFailed(reply) == AnalyzeWithGeminiRaises(reply) \/ AnalyzeWithGeminiValue(reply).type # "dict"

\* A run that persists whatever the Gemini attempt left.
AfterGeminiNoFallback(result) == "persist"

\* Line 129: `if not analysis_result` selects the mock engine.
AfterGemini(result) == IF Truthy(result) THEN "persist" ELSE "mock"

run_gemini(i) ==
    /\ phase = "serving"
    /\ runs[i].pc = "gemini"
    /\ \E reply \in GeminiReplies :
        LET result == GeminiAttempt(reply) IN
        runs' = [runs EXCEPT ![i] = [@ EXCEPT
                   !.ai_failed = GeminiFailed(reply), !.result = result, !.pc = AfterGemini(result)]]
    /\ UNCHANGED <<source_url, files, status, analysis, reqs, phase, gemini_available, sweep, orphaned>>
    /\ UNCHANGED <<mockVars, pureVars>>

\* generate_enhanced_mock_analysis, lines 721-742: the dict it returns.
MockResult == [type |-> "dict", len |-> 15, ai_generated |-> FALSE, model_used |-> "PortLens-Enterprise-v3"]

\* Lines 129-136: the call of the mock engine, here by the dict it returns;
\* the steps of the engine itself and its use of the process-wide generator
\* are the mock_analysis actions below.
run_mock(i) ==
    /\ phase = "serving"
    /\ runs[i].pc = "mock"
    /\ runs' = [runs EXCEPT ![i] = [@ EXCEPT !.result = MockResult, !.pc = "persist"]]
    /\ UNCHANGED <<source_url, files, status, analysis, reqs, phase, gemini_available, sweep, orphaned>>
    /\ UNCHANGED <<mockVars, pureVars>>

\* Lines 139-158: select the analysis row (its columns are loaded here), add a
\* new Analysis to the session when there is none, then read the result with
\* .get, which raises AttributeError on a value that is not a dict.
run_select_analysis(i) ==
    /\ phase = "serving"
    /\ runs[i].pc = "persist"
    /\ LET p == runs[i].pid IN
        runs' = [runs EXCEPT ![i] = [@ EXCEPT
                   !.added = ~analysis[p].exists,
                   !.row = analysis[p],
                   !.pc = IF runs[i].result.type = "dict" THEN "commit" ELSE "except"]]
    /\ UNCHANGED <<source_url, files, status, analysis, reqs, phase, gemini_available, sweep, orphaned>>
    /\ UNCHANGED <<mockVars, pureVars>>

\* A row written without its scores.
AnalysisRowUnfilled(result) ==
    [exists |-> TRUE, filled |-> FALSE, ai_generated |-> result.ai_generated, model_used |-> result.model_used]

\* The analyses row written from a result dict.
AnalysisRow(result) ==
    [exists |-> TRUE, filled |-> TRUE, ai_generated |-> result.ai_generated, model_used |-> result.model_used]

\* The row of an Analysis(portfolio_id=...) that was added and never filled.
EmptyAnalysis == [exists |-> TRUE, filled |-> FALSE, ai_generated |-> FALSE, model_used |-> None]

\* The INSERT of an added Analysis violates unique(portfolio_id) when a row
\* was committed for the portfolio since this run selected.
InsertFails(r) == r.added /\ analysis[r.pid].exists

\* What the ORM flushes for the result columns assigned at lines 149-157 on
\* a row loaded as `loaded`: the UPDATE sets the columns whose value differs
\* from the loaded one, so a result equal to the loaded row changes none of
\* them and the committed columns are left alone.  The dict of the mock engine
\* for a portfolio is the same at every run (seeded by its URL or id); two
\* replies of Gemini are taken to differ.
FlushRow(current, loaded, value) ==
    IF loaded = value /\ ~value.ai_generated THEN current ELSE value

\* Lines 159-165: status COMPLETED and db.commit().  A failed flush raises
\* into the except clause of line 167.
run_commit(i) ==
    /\ phase = "serving"
    /\ runs[i].pc = "commit"
    /\ LET r == runs[i]
           p == r.pid
           after == FlushStatus(status[p], r.loaded, COMPLETED)
       IN IF InsertFails(r)
          THEN /\ runs' = [runs EXCEPT ![i].pc = "except"]
               /\ UNCHANGED <<files, status, analysis>>
          ELSE /\ analysis' = [analysis EXCEPT ![p] = FlushRow(@, r.row, AnalysisRow(r.result))]
               /\ files' = [files EXCEPT ![p] = @ \/ r.new_files]
               /\ status' = [status EXCEPT ![p] = after]
               /\ runs' = [runs EXCEPT ![i] = IdleRun]
    /\ UNCHANGED <<source_url, reqs, phase, gemini_available, sweep, orphaned>>
    /\ UNCHANGED <<mockVars, pureVars>>

\* A status that sends the portfolio back to the start of the lifecycle.
StatusOnErrorRetry == PENDING

\* Line 178: the status the except clause sets.
StatusOnError == FAILED

\* Lines 167-182: the except clause.  Its select autoflushes the session (a
\* pending Analysis is inserted empty, scraped files are kept); a session whose
\* flush failed raises again on use, which the bare except swallows; then the
\* original exception is re-raised and the task ends.
run_except(i) ==
    /\ phase = "serving"
    /\ runs[i].pc = "except"
    /\ LET r == runs[i]
           p == r.pid
           after == FlushStatus(status[p], r.loaded, StatusOnError)
       IN IF InsertFails(r)
          THEN /\ runs' = [runs EXCEPT ![i] = IdleRun]
               /\ UNCHANGED <<files, status, analysis>>
          ELSE /\ analysis' = [analysis EXCEPT ![p] = IF r.added THEN EmptyAnalysis ELSE @]
               /\ files' = [files EXCEPT ![p] = @ \/ r.new_files]
               /\ status' = [status EXCEPT ![p] = after]
               /\ runs' = [runs EXCEPT ![i] = IdleRun]
    /\ UNCHANGED <<source_url, reqs, phase, gemini_available, sweep, orphaned>>
    /\ UNCHANGED <<mockVars, pureVars>>

\* reset_stuck_portfolios, lines 755-761: select the processing portfolios.
StuckPortfolios(st) == {p \in Portfolios : st[p] = PROCESSING}

sweep_select ==
    /\ phase = "serving"
    /\ sweep.pc = "scheduled"
    /\ LET stuck == StuckPortfolios(status) IN
        sweep' = [pc |-> IF stuck = {} THEN "done" ELSE "selected", stuck |-> stuck]
    /\ UNCHANGED <<source_url, files, status, analysis, reqs, runs, phase, gemini_available, orphaned>>
    /\ UNCHANGED <<mockVars, pureVars>>

\* Lines 763-768: set each selected portfolio to FAILED and commit.
sweep_commit ==
    /\ phase = "serving"
    /\ sweep.pc = "selected"
    /\ status' = [p \in Portfolios |-> IF p \in sweep.stuck THEN FAILED ELSE status[p]]
    /\ sweep' = [sweep EXCEPT !.pc = "done"]
    /\ orphaned' = orphaned \ sweep.stuck
    /\ UNCHANGED <<source_url, files, analysis, reqs, runs, phase, gemini_available>>
    /\ UNCHANGED <<mockVars, pureVars>>

\* ------------------ services/ai_service.py: generate_enhanced_mock_analysis
\* calls of the mock engine that can be suspended in the metadata fetch at
\* the same time
MaxCalls == 2

\* resolution of the streams that are not tabulated: random() is k / DrawLevels
DrawLevels == 4

CallIds == 1..MaxCalls

\* The arguments source_url and seed_id: analyze_portfolio passes the
\* portfolio's URL and str(portfolio.id); both default to None.
MockUrls == {None, Url1, Url2}
SeedIds == {None, Id1, Id2}

\* A seed string that prefers the record id to the URL.
SeedStringIdFirst(url, id) ==
    IF StrTruthy(id) THEN id ELSE IF StrTruthy(url) THEN url ELSE "default-seed"

\* Line 282: source_url if source_url else (seed_id or "default-seed")
SeedString(url, id) ==
    IF StrTruthy(url) THEN url ELSE IF StrTruthy(id) THEN id ELSE "default-seed"

\* seed_string.encode('utf-8')
Utf8(str) ==
    CASE str = Url1 -> <<104, 116, 116, 112, 115, 58, 47, 47, 100, 114, 105, 98, 98, 98, 108,
                         101, 46, 99, 111, 109, 47, 101, 120, 97, 109, 112, 108, 101>>
      [] str = Url2 -> <<104, 116, 116, 112, 115, 58, 47, 47, 119, 119, 119, 46, 98, 101, 104,
                         97, 110, 99, 101, 46, 110, 101, 116, 47, 101, 120, 97, 109, 112, 108, 101>>
      [] str = Id1 -> <<51, 102, 50, 98, 56, 99, 49, 101, 45, 53, 100, 52, 55, 45, 52, 97, 57, 98,
                        45, 56, 101, 54, 102, 45, 48, 99, 49, 100, 50, 97, 51, 98, 52, 99, 53, 100>>
      [] str = Id2 -> <<57, 97, 55, 99, 54, 101, 53, 100, 45, 52, 98, 51, 97, 45, 52, 102, 50, 101,
                        45, 56, 100, 49, 99, 45, 48, 98, 57, 97, 56, 102, 55, 101, 54, 100, 53, 99>>
      [] str = "default-seed" -> <<100, 101, 102, 97, 117, 108, 116, 45, 115, 101, 101, 100>>

\* zlib.adler32 (line 283): two sums modulo 65521 over the bytes; the 32-bit
\* value is hi * 2^16 + lo and is kept as its two halves.
AdlerMod == 65521

RECURSIVE AdlerSums(_, _, _, _)
AdlerSums(bytes, k, a, b) ==
    IF k > Len(bytes) THEN <<a, b>>
    ELSE LET a2 == (a + bytes[k]) % AdlerMod
         IN AdlerSums(bytes, k + 1, a2, (b + a2) % AdlerMod)

Adler32(bytes) == LET ab == AdlerSums(bytes, 1, 1, 0) IN [hi |-> ab[2], lo |-> ab[1]]

\* Lines 282-283.
SeedValue(url, id) == Adler32(Utf8(SeedString(url, id)))

\* States of the process-wide generator: seeded from system entropy, or seeded
\* with a value; fresh until the first draw after the seeding.
Entropy == [kind |-> "entropy", seed |-> [hi |-> 0, lo |-> 0], fresh |-> FALSE]

\* A seeding that ignores its argument.
SeedFromEntropy(value) == Entropy

\* Line 284: random.seed(seed_value)
SeedState(value) == [kind |-> "seeded", seed |-> value, fresh |-> TRUE]

\* The generator after draws were made from it.
AfterDraws(g) == [g EXCEPT !.fresh = FALSE]

\* A reseed that leaves the generator as it is.
ReseedSkipped(g) == g

\* Line 693: random.seed(None)
Reseed(g) == Entropy

\* random() is kept in units of 1/Grid, scores in hundredths.
Grid == 10000

\* random.uniform(a, b) = a + (b - a) * random(), in hundredths
Uniform(a, b, r) == 100 * a + (100 * (b - a) * r) \div Grid

\* What a freshly seeded generator yields to the engine: the random() values
\* behind the five uniform draws (lines 329-346), in 1/Grid, and the indices
\* the three random.sample calls (line 576) pick from their pools.  These are
\* the streams of Python's Mersenne Twister for the five seed values.
MersenneTwister(seed) ==
    CASE seed = [hi |-> 38697, lo |-> 2698] ->
            [u |-> <<4257, 7661, 7611, 8087, 6974>>, s |-> <<<<9, 18, 0>>, <<0, 12, 4>>, <<3, 16, 19>>>>]
      [] seed = [hi |-> 47467, lo |-> 2997] ->
            [u |-> <<935, 455, 3054, 6455, 366>>, s |-> <<<<5, 6, 7>>, <<2, 1, 6>>, <<7, 9, 1>>>>]
      [] seed = [hi |-> 46607, lo |-> 2560] ->
            [u |-> <<4961, 9762, 9470, 7401, 1366>>, s |-> <<<<10, 17, 11>>, <<17, 18, 0>>, <<15, 2, 18>>>>]
      [] seed = [hi |-> 47907, lo |-> 2624] ->
            [u |-> <<8609, 2410, 2006, 5935, 8329>>, s |-> <<<<19, 18, 2>>, <<0, 10, 1>>, <<8, 17, 3>>>>]
      [] seed = [hi |-> 7894, lo |-> 1204] ->
            [u |-> <<786, 7469, 5001, 2080, 4842>>, s |-> <<<<4, 14, 5>>, <<8, 3, 4>>, <<0, 9, 1>>>>]

\* Streams that are not tabulated are taken from a grid.
Level(k) == (k * Grid) \div DrawLevels

\* Index triples a random.sample(pool, 3) can return from every pool.
SampleChoices == {<<0, 1, 2>>, <<9, 4, 7>>}

\* Every stream of the grid.
GridStreams ==
    {[u |-> <<Level(a), Level(b), Level(c), Level(d), Level(e)>>, s |-> <<x, y, z>>] :
        a \in 0..DrawLevels, b \in 0..DrawLevels, c \in 0..DrawLevels,
        d \in 0..DrawLevels, e \in 0..DrawLevels,
        x \in SampleChoices, y \in SampleChoices, z \in SampleChoices}

\* The streams taken for a generator seeded from entropy.
EntropyStreams ==
    {[u |-> <<Level(k), Level(k), Level(k), Level(k), Level(k)>>, s |-> <<x, x, x>>] :
        k \in 0..DrawLevels, x \in SampleChoices}

\* The streams the next draws of generator g can be: the seed's own stream
\* when g was just seeded with a value, else unknown in advance.
Draws(g) == IF g.kind = "seeded" /\ g.fresh THEN {MersenneTwister(g.seed)} ELSE EntropyStreams

\* round(x, 0) of Python on a value in hundredths: to the nearest whole
\* number, a tie to the even one.
RoundHalfEven(x) ==
    LET q == x \div 100
        r == x % 100
    IN IF r < 50 THEN q ELSE IF r > 50 THEN q + 1 ELSE IF q % 2 = 0 THEN q ELSE q + 1

Max(a, b) == IF a >= b THEN a ELSE b
Min(a, b) == IF a <= b THEN a ELSE b

\* Lines 336-338: max(40, min(99, score))
ClampScore(x) == Max(40, Min(99, x))

\* A hireability clamp without its upper end.
ClampHireabilityOpen(x) == Max(42, x)

\* Line 347: max(42, min(99, hireability_score))
ClampHireability(x) == Max(42, Min(99, x))

\* Lines 329-347: the five scores from the five uniform draws.
Scores(u) ==
    LET base_quality == Uniform(65, 88, u[1])
        visual == ClampScore(RoundHalfEven(base_quality + Uniform(-10, 10, u[2])))
        ux == ClampScore(RoundHalfEven(base_quality + Uniform(-15, 10, u[3])))
        communication == ClampScore(RoundHalfEven(base_quality + Uniform(-10, 10, u[4])))
        overall == RoundHalfEven(35 * visual + 40 * ux + 25 * communication)
        hireability == ClampHireability(RoundHalfEven(100 * overall + Uniform(-3, 3, u[5])))
    IN [visual_score |-> visual, ux_score |-> ux, communication_score |-> communication,
        overall_score |-> overall, hireability_score |-> hireability]

\* Tiers with the mid pool above the high one.
TierInverted(score) == IF score >= 80 THEN "mid" ELSE IF score >= 70 THEN "high" ELSE "low"

\* Lines 566-571: the tier of a score.
Tier(score) == IF score >= 80 THEN "high" ELSE IF score >= 70 THEN "mid" ELSE "low"

\* Pools of which one is shorter than a sample.
PoolSizeShort ==
    [visual |-> [high |-> 20, mid |-> 15, low |-> 10],
     ux |-> [high |-> 20, mid |-> 14, low |-> 10],
     communication |-> [high |-> 20, mid |-> 13, low |-> 2]]

\* Lines 405-564: len() of the phrase pools.
PoolSize ==
    [visual |-> [high |-> 20, mid |-> 15, low |-> 10],
     ux |-> [high |-> 20, mid |-> 14, low |-> 10],
     communication |-> [high |-> 20, mid |-> 13, low |-> 10]]

\* Lines 403-583: the pool of the score's tier and the phrases sampled from it.
generate_paragraph(score, category, sample) ==
    [tier |-> Tier(score), pool |-> PoolSize[category][Tier(score)], phrases |-> sample]

\* Lines 329-347, 686-690 and 721-742: the result the engine returns when
\* its draws are `stream`.
MockAnalysis(stream) ==
    LET sc == Scores(stream.u) IN
    [visual_score |-> sc.visual_score,
     ux_score |-> sc.ux_score,
     communication_score |-> sc.communication_score,
     overall_score |-> sc.overall_score,
     hireability_score |-> sc.hireability_score,
     detailed_feedback |->
        [visual |-> generate_paragraph(sc.visual_score, "visual", stream.s[1]),
         ux |-> generate_paragraph(sc.ux_score, "ux", stream.s[2]),
         communication |-> generate_paragraph(sc.communication_score, "communication", stream.s[3])],
     ai_generated |-> FALSE,
     model_used |-> "PortLens-Enterprise-v3"]

\* Lines 288-289 and 309-321: page_title and page_description, as initialised
\* and as extracted from a fetched page.
DefaultMeta == [title |-> "Portfolio", description |-> ""]
FetchedMeta == [title |-> "Jane Doe - Mobile App Designer", description |-> "iOS and Android product design"]
Metas == {DefaultMeta, FetchedMeta}

IdleCall == [pc |-> "idle", source_url |-> None, seed_id |-> None, seed_string |-> None, solo |-> FALSE]

NoParagraph == [tier |-> None, pool |-> 0, phrases |-> <<>>]

NoMockAnalysis ==
    [visual_score |-> 0, ux_score |-> 0, communication_score |-> 0, overall_score |-> 0,
     hireability_score |-> 0,
     detailed_feedback |-> [visual |-> NoParagraph, ux |-> NoParagraph, communication |-> NoParagraph],
     ai_generated |-> FALSE, model_used |-> None]

\* No call of the engine has returned yet.
NoLast == [valid |-> FALSE, source_url |-> None, seed_id |-> None, seed_string |-> None,
           meta |-> DefaultMeta, result |-> NoMockAnalysis, solo |-> FALSE, repeat |-> FALSE]

\* Calls suspended at line 307, await asyncio.to_thread(fetch_meta_safe).
InFlight == {i \in CallIds : calls[i].pc = "fetch"}

\* A call returns `result`: the record of it.  solo: no other call was in
\* progress at any time of this call; repeat: this call and the call that
\* returned before it were both solo, with one seed string and one fetched
\* title and description.
Returned(url, id, seed_string, meta, result, solo) ==
    [valid |-> TRUE, source_url |-> url, seed_id |-> id, seed_string |-> seed_string,
     meta |-> meta, result |-> result, solo |-> solo,
     repeat |-> solo /\ last.valid /\ last.solo /\ last.seed_string = seed_string /\ last.meta = meta]

\* Another call ran while these were suspended.
Overlapped(cs) == [i \in CallIds |-> IF cs[i].pc = "fetch" THEN [cs[i] EXCEPT !.solo = FALSE] ELSE cs[i]]

\* A call without a URL: lines 282-742 have no await, the whole call is one
\* step.  It seeds, draws, builds the result and reseeds.
mock_analysis_no_url(url, id) ==
    /\ ~StrTruthy(url)
    /\ LET seeded == SeedState(SeedValue(url, id)) IN
        /\ \E stream \in Draws(seeded) :
             last' = Returned(url, id, SeedString(url, id), DefaultMeta, MockAnalysis(stream), InFlight = {})
        /\ rng' = Reseed(AfterDraws(seeded))
    /\ calls' = Overlapped(calls)
    /\ UNCHANGED <<lifeVars, pureVars>>

\* A call with a URL, lines 282-307: it seeds the generator and is suspended
\* in the metadata fetch.
mock_analysis_begin(i, url, id) ==
    /\ StrTruthy(url)
    /\ calls[i].pc = "idle"
    /\ \A j \in CallIds : j < i => calls[j].pc # "idle"
    /\ rng' = SeedState(SeedValue(url, id))
    /\ calls' = [Overlapped(calls) EXCEPT ![i] =
                    [pc |-> "fetch", source_url |-> url, seed_id |-> id,
                     seed_string |-> SeedString(url, id), solo |-> InFlight = {}]]
    /\ UNCHANGED last
    /\ UNCHANGED <<lifeVars, pureVars>>

\* Lines 309-742, after the fetch returned: title and description, then the
\* draws from the generator as it is now, the result, the reseed.
mock_analysis_resume(i) ==
    /\ calls[i].pc = "fetch"
    /\ LET c == calls[i] IN
        \E meta \in Metas, stream \in Draws(rng) :
            last' = Returned(c.source_url, c.seed_id, c.seed_string, meta, MockAnalysis(stream), c.solo)
    /\ rng' = Reseed(AfterDraws(rng))
    /\ calls' = [calls EXCEPT ![i] = IdleCall]
    /\ UNCHANGED <<lifeVars, pureVars>>

\* A seed id that is none of the tabulated ones.
OtherId == "another-id"

\* The first call in a process, with a seed string whose stream is not
\* tabulated: lines 329-742 on any stream of the grid.
mock_analysis_other_seed ==
    /\ ~last.valid
    /\ \E stream \in GridStreams :
         last' = Returned(None, OtherId, SeedString(None, OtherId), DefaultMeta, MockAnalysis(stream), TRUE)
    /\ rng' = Reseed(AfterDraws(SeedState([hi |-> 0, lo |-> 0])))
    /\ UNCHANGED calls
    /\ UNCHANGED <<lifeVars, pureVars>>

\* ------------- generate_enhanced_mock_analysis: verdict and seniority
\* Bands that leave 60 to the lowest one.
SeniorityGap(overall_score) ==
    IF overall_score >= 90 THEN "Lead/Principal"
    ELSE IF overall_score >= 80 THEN "Senior"
    ELSE IF overall_score >= 70 THEN "Mid-Level"
    ELSE IF overall_score > 60 THEN "Junior/Mid"
    ELSE "Junior"

\* Lines 699-719: seniority
Seniority(overall_score) ==
    IF overall_score >= 90 THEN "Lead/Principal"
    ELSE IF overall_score >= 80 THEN "Senior"
    ELSE IF overall_score >= 70 THEN "Mid-Level"
    ELSE IF overall_score >= 60 THEN "Junior/Mid"
    ELSE "Junior"

\* Lines 699-719: industry_benchmark, set in the branch that sets seniority.
IndustryBenchmark(overall_score) ==
    CASE Seniority(overall_score) = "Lead/Principal" ->
            "Comparable to Senior/Lead designers at Stripe, Figma, or Linear."
      [] Seniority(overall_score) = "Senior" ->
            "Comparable to Senior designers at well-funded Series B+ startups."
      [] Seniority(overall_score) = "Mid-Level" ->
            "Comparable to Mid-level designers at established tech companies."
      [] Seniority(overall_score) = "Junior/Mid" ->
            "Comparable to Junior/Mid designers at early-stage startups."
      [] OTHER -> "Entry-level, suitable for internships or junior roles."

\* A verdict whose top tier starts lower.
VerdictQualityLow(hireability_score) ==
    IF hireability_score >= 82 THEN "Top-Tier" ELSE IF hireability_score >= 75 THEN "Strong" ELSE "Developing"

\* Line 696: verdict_quality
VerdictQuality(hireability_score) ==
    IF hireability_score >= 85 THEN "Top-Tier" ELSE IF hireability_score >= 75 THEN "Strong" ELSE "Developing"

\* Line 727: the closing sentence of recruiter_verdict.
VerdictClosing(overall_score) ==
    IF overall_score >= 80 THEN "exceptional promise and immediate hire potential"
    ELSE IF overall_score >= 70 THEN "clear capability with room for growth"
    ELSE "foundational skills ready for mentorship"

\* ------- generate_enhanced_mock_analysis: platform, specialization, lists
\* URLs of the platforms lines 373-386 tell apart, and one of none of them.
Url3 == "https://www.linkedin.com/in/example"
Url4 == "https://example.notion.site/portfolio"
Url5 == "https://example.webflow.io"
Url6 == "https://example.com/portfolio"

FeedbackUrls == {None, Url1, Url2, Url3, Url4, Url5, Url6}

\* Lines 376-386: the words tested with `in url_lower` that occur in the URL.
UrlWords(url) ==
    CASE url = Url1 -> {"dribbble.com"}
      [] url = Url2 -> {"behance.net"}
      [] url = Url3 -> {"linkedin.com"}
      [] url = Url4 -> {"notion.site"}
      [] url = Url5 -> {"webflow.io"}
      [] OTHER      -> {}

\* A chain that tests dribbble before behance.
PlatformOfDribbbleFirst(url_lower) ==
    IF "dribbble.com" \in url_lower THEN "dribbble"
    ELSE IF "behance.net" \in url_lower THEN "behance"
    ELSE IF "linkedin.com" \in url_lower THEN "linkedin"
    ELSE IF {"notion.so", "notion.site"} \cap url_lower # {} THEN "notion"
    ELSE IF {"framer.com", "webflow.io", "squarespace"} \cap url_lower # {} THEN "custom"
    ELSE "generic"

\* Lines 376-385: the if/elif chain on url_lower, given by the tested words
\* that occur in it.
PlatformOf(url_lower) ==
    IF "behance.net" \in url_lower THEN "behance"
    ELSE IF "dribbble.com" \in url_lower THEN "dribbble"
    ELSE IF "linkedin.com" \in url_lower THEN "linkedin"
    ELSE IF {"notion.so", "notion.site"} \cap url_lower # {} THEN "notion"
    ELSE IF {"framer.com", "webflow.io", "squarespace"} \cap url_lower # {} THEN "custom"
    ELSE "generic"

\* Lines 373-386
Platform(url) == IF ~StrTruthy(url) THEN "generic" ELSE PlatformOf(UrlWords(url))

\* Titles and descriptions a fetched page can give.
WebMeta == [title |-> "SaaS Dashboard Case Studies", description |-> "Responsive web design"]
BrandMeta == [title |-> "Brand Identity Designer", description |-> "Logo systems, a case study each"]
ResearchMeta == [title |-> "UX Research Portfolio", description |-> "User research and usability testing"]
MotionMeta == [title |-> "3D Motion Reel", description |-> "Animation and video"]

FeedbackMetas == {DefaultMeta, FetchedMeta, WebMeta, BrandMeta, ResearchMeta, MotionMeta}

\* Line 390: all_text = (page_title + " " + page_description).lower(), by the
\* words tested with `in all_text` (lines 391-400 and 639) that occur in it.
all_text(meta) ==
    CASE meta = FetchedMeta  -> {"mobile", "ios", "android", "app"}
      [] meta = WebMeta      -> {"web", "saas", "dashboard", "case"}
      [] meta = BrandMeta    -> {"brand", "identity", "logo", "case", "study"}
      [] meta = ResearchMeta -> {"ux research", "user research", "usability"}
      [] meta = MotionMeta   -> {"3d", "motion", "animation", "video"}
      [] OTHER               -> {}

\* A chain that tests the web keywords before the mobile ones.
SpecializationWebFirst(text) ==
    IF {"web", "saas", "dashboard", "webapp"} \cap text # {} THEN "web"
    ELSE IF {"mobile", "ios", "android", "app"} \cap text # {} THEN "mobile"
    ELSE IF {"brand", "identity", "logo", "visual identity"} \cap text # {} THEN "branding"
    ELSE IF {"ux research", "user research", "usability"} \cap text # {} THEN "research"
    ELSE IF {"3d", "motion", "animation", "video"} \cap text # {} THEN "motion"
    ELSE "general"

\* Lines 388-400
Specialization(text) ==
    IF {"mobile", "ios", "android", "app"} \cap text # {} THEN "mobile"
    ELSE IF {"web", "saas", "dashboard", "webapp"} \cap text # {} THEN "web"
    ELSE IF {"brand", "identity", "logo", "visual identity"} \cap text # {} THEN "branding"
    ELSE IF {"ux research", "user research", "usability"} \cap text # {} THEN "research"
    ELSE IF {"3d", "motion", "animation", "video"} \cap text # {} THEN "motion"
    ELSE "general"

\* Lines 585-617: the strengths list before it is cut; a paragraph is named
\* by its category and its opening words.
strengths(visual_score, ux_score, communication_score, platform, specialization) ==
    (IF visual_score >= 80
     THEN <<"visual: exceptional visual polish">>
          \o (IF platform = "behance" THEN <<"visual: Behance project layout">>
              ELSE IF platform = "dribbble" THEN <<"visual: Shot composition">>
              ELSE IF platform = "custom" THEN <<"visual: custom portfolio site">>
              ELSE <<>>)
          \o <<"visual: Typographic hierarchy">>
     ELSE IF visual_score >= 70
     THEN <<"visual: layout is clean and functional", "visual: Fundamental design principles">>
     ELSE <<"visual: emerging understanding">>)
    \o
    (IF ux_score >= 80
     THEN <<"ux: genuine user-centric thinking">>
          \o (IF specialization = "mobile" THEN <<"ux: mobile-specific UX patterns">>
              ELSE IF specialization = "web" THEN <<"ux: responsive web design and dashboard UX">>
              ELSE IF specialization = "research" THEN <<"ux: Research methodology">>
              ELSE <<>>)
     ELSE IF ux_score >= 70
     THEN <<"ux: Problem definitions are solid">>
     ELSE <<>>)
    \o
    (IF communication_score >= 80 THEN <<"communication: Storytelling is compelling">> ELSE <<>>)

\* A list that is left empty when no category is weak.
EnsureWeaknessSkipped(list) == list

\* Lines 632-634: `if not weaknesses` appends the generic paragraph.
EnsureWeakness(list) ==
    IF list = <<>> THEN <<"generic: adding more quantitative outcomes">> ELSE list

\* Lines 619-634: the weaknesses list before it is cut.
weaknesses(visual_score, ux_score, communication_score, platform, specialization) ==
    EnsureWeakness(
        (IF visual_score < 75
         THEN <<"visual: Visual hierarchy could be strengthened">>
              \o (IF platform = "dribbble" THEN <<"visual: Dribbble shots need stronger hooks">> ELSE <<>>)
         ELSE <<>>)
        \o
        (IF ux_score < 75
         THEN <<"ux: Process documentation could go deeper">>
              \o (IF specialization = "mobile" THEN <<"ux: Mobile-specific patterns">> ELSE <<>>)
         ELSE <<>>)
        \o
        (IF communication_score < 75 THEN <<"communication: clearer before/after impact metrics">> ELSE <<>>))

\* Lines 642-660: the recommendations of the platform.
PlatformRecommendations(platform) ==
    CASE platform = "behance"  -> <<"Behance Optimization", "Cross-Posting">>
      [] platform = "dribbble" -> <<"Dribbble Strategy", "Tags & Timing">>
      [] platform = "linkedin" -> <<"LinkedIn Polish", "Thought Leadership">>
      [] platform = "notion"   -> <<"Notion Upgrade", "Visual Polish">>
      [] platform = "custom"   -> <<"Performance", "SEO">>
      [] OTHER                 -> <<"Platform Presence">>

\* Lines 662-677: the recommendations of the specialization.
SpecializationRecommendations(specialization) ==
    CASE specialization = "mobile"   -> <<"Mobile Deep Dive", "Prototype Links">>
      [] specialization = "web"      -> <<"Responsive Showcase", "Technical Context">>
      [] specialization = "branding" -> <<"Brand System", "Motion Identity">>
      [] specialization = "research" -> <<"Research Portfolio", "Impact Metrics">>
      [] specialization = "motion"   -> <<"Showreel", "Process Breakdown">>
      [] OTHER                       -> <<>>

\* Lines 638-641: the universal recommendation.
UniversalRecommendation(text) ==
    IF "case" \in text \/ "study" \in text THEN <<"Outcome Focus">> ELSE <<"Add Case Studies">>

\* Lines 679-681: the closing recommendations.
ClosingRecommendations == <<"Social Proof", "About Section">>

\* Lines 636-681: the recommendations list before it is cut.
recommendations(text, platform, specialization) ==
    UniversalRecommendation(text) \o PlatformRecommendations(platform)
        \o SpecializationRecommendations(specialization) \o ClosingRecommendations

\* list[:n]
Slice(list, n) == SubSeq(list, 1, Min(n, Len(list)))

\* Lines 329-742: the dict the engine returns for a URL, the title and
\* description found (the initial ones when there is no URL) and the draws.
generate_enhanced_mock_analysis(url, meta, stream) ==
    LET r == MockAnalysis(stream)
        platform == Platform(url)
        specialization == Specialization(all_text(meta))
    IN [visual_score |-> r.visual_score,
        ux_score |-> r.ux_score,
        communication_score |-> r.communication_score,
        overall_score |-> r.overall_score,
        hireability_score |-> r.hireability_score,
        strengths |-> Slice(strengths(r.visual_score, r.ux_score, r.communication_score,
                                      platform, specialization), 5),
        weaknesses |-> Slice(weaknesses(r.visual_score, r.ux_score, r.communication_score,
                                        platform, specialization), 4),
        recommendations |-> Slice(recommendations(all_text(meta), platform, specialization), 6),
        recruiter_verdict |-> [quality |-> VerdictQuality(r.hireability_score),
                               closing |-> VerdictClosing(r.overall_score)],
        seniority_assessment |-> Seniority(r.overall_score),
        industry_benchmark |-> IndustryBenchmark(r.overall_score),
        detailed_feedback |-> r.detailed_feedback,
        meta |-> [title |-> meta.title, description |-> meta.description,
                  platform |-> platform, specialization |-> specialization],
        ai_generated |-> r.ai_generated,
        model_used |-> r.model_used]

\* Lines 293-304: what fetch_meta_safe returns, by what lines 309-321 find in
\* it: the empty string after any exception (timeout, DNS, TLS, HTTP error),
\* else the text of the page with the title and the description the regular
\* expressions match, if any.  An Optional match is a sequence of at most one.
FetchFailed == [empty |-> TRUE, title |-> <<>>, description |-> <<>>]

\* A body that is not HTML (or has neither element).
NotHtml == [empty |-> FALSE, title |-> <<>>, description |-> <<>>]

PageOf(meta) == [empty |-> FALSE, title |-> <<meta.title>>, description |-> <<meta.description>>]

Pages == {FetchFailed, NotHtml} \cup {PageOf(meta) : meta \in FeedbackMetas \ {DefaultMeta}}

\* Lines 288-289 and 309-321: page_title and page_description after the fetch.
ExtractMeta(html_content) ==
    [title |-> IF ~html_content.empty /\ html_content.title # <<>>
               THEN html_content.title[1] ELSE "Portfolio",
     description |-> IF ~html_content.empty /\ html_content.description # <<>>
                     THEN html_content.description[1] ELSE ""]

\* No call has returned yet.
NoReport ==
    [valid |-> FALSE, source_url |-> None, fetch |-> None,
     result |-> [visual_score |-> 0, ux_score |-> 0, communication_score |-> 0, overall_score |-> 0,
                 hireability_score |-> 0, strengths |-> <<>>, weaknesses |-> <<>>, recommendations |-> <<>>,
                 recruiter_verdict |-> [quality |-> None, closing |-> None],
                 seniority_assessment |-> None, industry_benchmark |-> None,
                 detailed_feedback |-> NoMockAnalysis.detailed_feedback,
                 meta |-> [title |-> None, description |-> None, platform |-> None, specialization |-> None],
                 ai_generated |-> FALSE, model_used |-> None]]

\* The streams taken for the lists: every level of the four draws that make
\* the three category scores.
FeedbackStreams ==
    {[u |-> <<Level(a), Level(b), Level(c), Level(d), Level(0)>>, s |-> <<<<0, 1, 2>>, <<0, 1, 2>>, <<0, 1, 2>>>>] :
        a \in 0..DrawLevels, b \in 0..DrawLevels, c \in 0..DrawLevels, d \in 0..DrawLevels}

\* One call of the engine, first in its process: the URL, what the fetch of
\* the page gave (nothing is fetched without a URL, line 291), and the draws
\* of the call's seed.  No exception leaves the call: fetch_meta_safe catches
\* its own, and lines 292-325 catch the rest.
mock_analysis_report(url, html_content, stream) ==
    /\ ~report.valid
    /\ StrTruthy(url) \/ html_content = FetchFailed
    /\ report' = [valid |-> TRUE, source_url |-> url,
                  fetch |-> IF ~StrTruthy(url) THEN "none"
                            ELSE IF html_content.empty THEN "failed" ELSE "page",
                  result |-> generate_enhanced_mock_analysis(url, ExtractMeta(html_content), stream)]
    /\ UNCHANGED <<lifeVars, mockVars, persisted, probe>>

\* ------------------------------ the tagging steps of the engine, one at a time
NoProbe == [op |-> None, input |-> None, output |-> None]

\* The scores the steps are evaluated on.
ScoreRange == 0..100

\* Lines 699-719 on an overall score.
seniority_band(overall_score) ==
    /\ probe' = [op |-> "seniority", input |-> overall_score,
                 output |-> [seniority |-> Seniority(overall_score),
                             industry_benchmark |-> IndustryBenchmark(overall_score)]]
    /\ UNCHANGED <<lifeVars, mockVars, persisted, report>>

\* Keywords of lines 391-400 a page text is made of here.
ProbeWords == {"mobile", "app", "web", "webapp", "brand", "visual identity", "usability", "motion"}

\* The tested words that occur in a text made of `words`: a text with
\* "webapp" has "web" and "app" in it, one with "visual identity" has "identity".
Occurring(words) ==
    words \cup (IF "webapp" \in words THEN {"web", "app"} ELSE {})
          \cup (IF "visual identity" \in words THEN {"identity"} ELSE {})

\* Lines 388-400 on a text.
detect_specialization(words) ==
    /\ probe' = [op |-> "specialization", input |-> Occurring(words),
                 output |-> Specialization(Occurring(words))]
    /\ UNCHANGED <<lifeVars, mockVars, persisted, report>>

\* Words of lines 376-385.
PlatformWords == {"behance.net", "dribbble.com", "linkedin.com", "notion.so", "notion.site",
                  "framer.com", "webflow.io", "squarespace"}

\* Lines 373-386 on a URL that contains `words`, or on no URL (has_url FALSE).
detect_platform(has_url, words) ==
    /\ has_url \/ words = {}
    /\ probe' = [op |-> "platform", input |-> [has_url |-> has_url, words |-> words],
                 output |-> IF has_url THEN PlatformOf(words) ELSE Platform(None)]
    /\ UNCHANGED <<lifeVars, mockVars, persisted, report>>

\* Lines 566-573 on two scores of one category, the second not below the first.
select_pool(lower, higher) ==
    /\ lower <= higher
    /\ probe' = [op |-> "pool", input |-> <<lower, higher>>, output |-> <<Tier(lower), Tier(higher)>>]
    /\ UNCHANGED <<lifeVars, mockVars, persisted, report>>

\* ------------- services/ai_service.py: one run, from the reply to the row
\* Line 254: the keys of the five scores.
ScoreKeys == {"visual_score", "ux_score", "communication_score", "overall_score", "hireability_score"}

\* What json.loads leaves under a score key of a reply object: nothing, a
\* number, NaN (json.loads reads the token NaN), or a value on which float()
\* raises (a string that is no number, null, an array, an object).
Absent == [kind |-> "absent", value |-> 0]
Number(n) == [kind |-> "number", value |-> n]
NaN == [kind |-> "nan", value |-> 0]
NotANumber == [kind |-> "text", value |-> 0]

JsonScoreValues == {Absent, Number(-20), Number(55), Number(120), NaN, NotANumber}

\* The JSON objects a reply can hold, by their score keys.
JsonObjects == [ScoreKeys -> JsonScoreValues]

NoObject == [k \in ScoreKeys |-> Absent]

\* A clamp that lets every number through.
ClampGeminiOff(x) == x

\* Line 256: max(0, min(100, x))
ClampGemini(x) == Max(0, Min(100, x))

\* Line 256 on one value: float() raises on NotANumber; min(100, nan) is 100
\* because no comparison with NaN is true.
SanitizeScore(v) ==
    CASE v.kind = "number" -> Number(ClampGemini(v.value))
      [] v.kind = "nan"    -> Number(100)
      [] OTHER             -> v

\* Lines 253-258 on a reply object: the loop raises, or returns the object
\* with the scores that are present sanitized.
SanitizeRaises(obj) == \E k \in ScoreKeys : obj[k].kind = "text"

Sanitize(obj) == [k \in ScoreKeys |-> SanitizeScore(obj[k])]

PresentKeys(obj) == {k \in ScoreKeys : obj[k].kind # "absent"}

\* Lines 109-121 on a reply object: analysis_result after the try statement.
ObjectAttempt(obj) ==
    IF SanitizeRaises(obj) THEN NoResult
    ELSE [type |-> "dict", len |-> Cardinality(PresentKeys(obj)) + 2,
          ai_generated |-> TRUE, model_used |-> "gemini-2.0-flash-exp"]

\* Lines 149-153: analysis_result.get(key, 70)
ScoreDefault == 70

Get(obj, k) == IF obj[k].kind = "absent" THEN ScoreDefault ELSE obj[k].value

\* Lines 148-157 on the dict of a Gemini reply: the columns assigned.
GeminiRow(obj) ==
    [filled |-> TRUE,
     visual_score |-> Get(obj, "visual_score"),
     ux_score |-> Get(obj, "ux_score"),
     communication_score |-> Get(obj, "communication_score"),
     overall_score |-> Get(obj, "overall_score"),
     hireability_score |-> Get(obj, "hireability_score"),
     ai_generated |-> TRUE, model_used |-> "gemini-2.0-flash-exp"]

\* Lines 148-157 on the dict of the mock engine.
MockRow(r) ==
    [filled |-> TRUE,
     visual_score |-> r.visual_score,
     ux_score |-> r.ux_score,
     communication_score |-> r.communication_score,
     overall_score |-> r.overall_score,
     hireability_score |-> r.hireability_score,
     ai_generated |-> r.ai_generated, model_used |-> r.model_used]

\* The row of an Analysis that was added and never assigned (lines 145-146,
\* inserted by the autoflush of the except clause): every score is NULL.
NoRow == [filled |-> FALSE, visual_score |-> 0, ux_score |-> 0, communication_score |-> 0,
          overall_score |-> 0, hireability_score |-> 0, ai_generated |-> FALSE, model_used |-> None]

NoPersisted == [done |-> FALSE, reply |-> None, object |-> NoObject, status |-> PENDING, row |-> NoRow]

\* The portfolios a Gemini attempt is made for (line 108 needs images): an
\* upload with image files, a URL whose page gave scraped images.
GeminiPortfolios == {[source_url |-> None, id |-> Id1], [source_url |-> Url1, id |-> Id2]}

\* The draws of the fallback call of the mock engine: those of its seed, or,
\* for a call suspended in the metadata fetch while another call ran, any.
MockStreams(url, id) ==
    {MersenneTwister(SeedValue(url, id))} \cup (IF StrTruthy(url) THEN EntropyStreams ELSE {})

\* Lines 108-182 in a run that is alone on its portfolio, first analysis,
\* GEMINI_AVAILABLE and images: after the reply `reply` (with the object `obj`
\* when it holds one) the run falls back or not, completes with a row or fails.
analyze_portfolio_alone(reply, obj) ==
    /\ ~persisted.done
    /\ LET result == IF reply = "json_object" THEN ObjectAttempt(obj) ELSE GeminiAttempt(reply) IN
        \E pf \in GeminiPortfolios :
            IF AfterGemini(result) = "mock"
            THEN \E stream \in MockStreams(pf.source_url, pf.id) :
                    persisted' = [done |-> TRUE, reply |-> reply, object |-> obj, status |-> COMPLETED,
                                  row |-> MockRow(MockAnalysis(stream))]
            ELSE IF result.type = "dict"
            THEN persisted' = [done |-> TRUE, reply |-> reply, object |-> obj, status |-> COMPLETED,
                               row |-> GeminiRow(Sanitize(obj))]
            ELSE persisted' = [done |-> TRUE, reply |-> reply, object |-> obj, status |-> StatusOnError,
                               row |-> NoRow]
    /\ UNCHANGED <<lifeVars, mockVars, report, probe>>

\* ------------------------------------------------------------ the process
\* The process has started with the portfolios created: a portfolio is created
\* pending, by submit_portfolio_url (a URL, no files)
\* or by upload_portfolio (no URL; image files, or PDF files only).
Init ==
    /\ source_url \in [Portfolios -> SourceUrls]
    /\ files \in [Portfolios -> BOOLEAN]
    /\ \A p \in Portfolios : StrTruthy(source_url[p]) => ~files[p]
    /\ status = [p \in Portfolios |-> PENDING]
    /\ analysis = [p \in Portfolios |-> NoAnalysis]
    /\ reqs = [i \in ReqIds |-> IdleReq]
    /\ runs = [i \in ReqIds |-> IdleRun]
    /\ phase = "starting"
    /\ gemini_available \in BOOLEAN
    /\ sweep = NoSweep
    /\ orphaned = {}
    /\ rng = Entropy
    /\ calls = [i \in CallIds |-> IdleCall]
    /\ last = NoLast
    /\ persisted = NoPersisted
    /\ report = NoReport
    /\ probe = NoProbe

RunLive == {"queued", "scrape", "gemini", "mock", "persist", "commit", "except"}

\* The process stops and starts again: requests and background runs in flight
\* are lost with their uncommitted sessions, the module is imported afresh.
restart ==
    /\ orphaned' = {p \in Portfolios : status[p] = PROCESSING}
    /\ phase' = "starting"
    /\ reqs' = [i \in ReqIds |-> IF reqs[i].pc = "flushed" THEN IdleReq ELSE reqs[i]]
    /\ runs' = [i \in ReqIds |-> IF runs[i].pc \in RunLive THEN IdleRun ELSE runs[i]]
    /\ gemini_available' \in BOOLEAN
    /\ sweep' = NoSweep
    /\ UNCHANGED <<source_url, files, status, analysis>>
    /\ UNCHANGED <<mockVars, pureVars>>

RunStep(i) ==
    \/ run_load(i)
    \/ run_scrape(i)
    \/ run_gemini(i)
    \/ run_mock(i)
    \/ run_select_analysis(i)
    \/ run_commit(i)
    \/ run_except(i)

Next ==
    \/ lifespan
    \/ restart
    \/ \E i \in ReqIds, p \in Portfolios : start_analysis(i, p)
    \/ \E i \in ReqIds, user \in Users, portfolio_id \in Portfolios \cup {MissingId} :
          start_analysis_not_found(i, user, portfolio_id)
    \/ \E i \in ReqIds : get_db_commit(i)
    \/ \E i \in ReqIds : RunStep(i)

Spec == Init /\ [][Next]_vars

\* The program with the sweep task created at startup, as lifespan means to.
NextSweep ==
    \/ LifespanStartup(TRUE)
    \/ restart
    \/ \E i \in ReqIds, p \in Portfolios : start_analysis(i, p)
    \/ \E i \in ReqIds, user \in Users, portfolio_id \in Portfolios \cup {MissingId} :
          start_analysis_not_found(i, user, portfolio_id)
    \/ \E i \in ReqIds : get_db_commit(i)
    \/ \E i \in ReqIds : RunStep(i)
    \/ sweep_select
    \/ sweep_commit

SweepSpec == Init /\ [][NextSweep]_vars

\* The mock engine alone: its calls, in any interleaving, in a process whose
\* portfolios stay as they are.
MockInit ==
    /\ Init
    /\ ~gemini_available
    /\ \A p \in Portfolios : source_url[p] = None /\ files[p]

NextMock ==
    \/ \E url \in MockUrls, id \in SeedIds : mock_analysis_no_url(url, id)
    \/ \E i \in CallIds, url \in MockUrls, id \in SeedIds : mock_analysis_begin(i, url, id)
    \/ \E i \in CallIds : mock_analysis_resume(i)

MockSpec == MockInit /\ [][NextMock]_vars

\* One call of the mock engine on every stream of the grid.
NextScore == mock_analysis_other_seed

ScoreSpec == MockInit /\ [][NextScore]_vars

\* One run alone, on every reply.
NextPersist ==
    /\ ~persisted.done
    /\ \/ \E reply \in GeminiReplies \ {"json_object"} : analyze_portfolio_alone(reply, NoObject)
       \/ \E obj \in JsonObjects : analyze_portfolio_alone("json_object", obj)

PersistInit ==
    /\ Init
    /\ gemini_available
    /\ \A p \in Portfolios : source_url[p] = None /\ files[p]

PersistSpec == PersistInit /\ [][NextPersist]_vars

\* One call of the mock engine on every URL, page text and category scores.
NextFeedback ==
    /\ ~report.valid
    /\ \E url \in FeedbackUrls, html_content \in Pages, stream \in FeedbackStreams :
          mock_analysis_report(url, html_content, stream)

FeedbackSpec == MockInit /\ [][NextFeedback]_vars

\* One evaluation of one tagging step, on every input.
NextProbe ==
    /\ probe.op = None
    /\ \/ \E overall_score \in ScoreRange : seniority_band(overall_score)
       \/ \E words \in SUBSET ProbeWords : detect_specialization(words)
       \/ \E has_url \in BOOLEAN, words \in SUBSET PlatformWords : detect_platform(has_url, words)
       \/ \E lower \in ScoreRange, higher \in ScoreRange : select_pool(lower, higher)

ProbeSpec == MockInit /\ [][NextProbe]_vars

\* ------------------------------------------------------ status lifecycle
\* A step of start_analysis's commit, and a step of an analyze_portfolio run.
ByStartAnalysis == reqs' # reqs /\ runs' # runs
ByAnalyzePortfolio == runs' # runs /\ reqs' = reqs

\* Runs of portfolio p that are queued or in flight.
LiveRuns(p) == {i \in ReqIds : runs[i].pc \in RunLive /\ runs[i].pid = p}

\* C1 as stated: every change of a status follows
\* pending -> processing -> {completed | failed}, and a completed or failed
\* portfolio never changes status again.
C1_StrictLifecycle ==
    [][\A p \in Portfolios : status'[p] # status[p] =>
          \/ status[p] = PENDING /\ status'[p] = PROCESSING
          \/ status[p] = PROCESSING /\ status'[p] \in {COMPLETED, FAILED}]_vars

\* A step of reset_stuck_portfolios's commit.
BySweep == sweep.pc = "selected" /\ sweep'.pc = "done"

\* C1 amended: a status changes to processing only by start_analysis and only
\* from pending, completed or failed (a finished portfolio can be analysed
\* again); it changes to completed or failed only by analyze_portfolio, never
\* from pending, or to failed by reset_stuck_portfolios from processing (or
\* from completed, when a run finished between the sweep's select and its
\* commit); no status ever returns to pending.
C1_Lifecycle ==
    [][\A p \in Portfolios : status'[p] # status[p] =>
          \/ /\ ByStartAnalysis
             /\ status[p] \in {PENDING, COMPLETED, FAILED}
             /\ status'[p] = PROCESSING
          \/ /\ ByAnalyzePortfolio
             /\ status[p] \in {PROCESSING, COMPLETED, FAILED}
             /\ status'[p] \in {COMPLETED, FAILED}
          \/ /\ BySweep
             /\ status[p] \in {PROCESSING, COMPLETED}
             /\ status'[p] = FAILED]_vars

\* A portfolio with a persisted result is processing again, its new run queued.
C1_Witness ==
    \E p \in Portfolios :
        /\ status[p] = PROCESSING
        /\ analysis[p].filled
        /\ \E i \in LiveRuns(p) : runs[i].pc = "queued"

\* C2: at most one analyze_portfolio run of a portfolio is queued or in flight.
C2_SingleRun == \A p \in Portfolios : Cardinality(LiveRuns(p)) <= 1

\* C3: once startup is over and no sweep is pending, no portfolio that the
\* restart left in processing is still processing.
C3_StartupSweepReconciles ==
    (phase = "serving" /\ sweep.pc \notin {"scheduled", "selected"})
        => \A p \in orphaned : status[p] # PROCESSING

\* A run ends in this step (by returning or by re-raising, not by a restart).
RunEnds(i) == runs[i].pc \in {"commit", "except"} /\ runs'[i].pc = "none" /\ phase' = "serving"

\* C4: when a run ends, the committed status of its portfolio is completed or
\* failed, never processing.
C4_RunEndsTerminal ==
    [][\A i \in ReqIds : RunEnds(i) => status'[runs[i].pid] \in {COMPLETED, FAILED}]_vars

\* C5: a run whose Gemini attempt failed (timeout, exception, or a reply that is
\* no usable JSON object) goes on only with the result of the mock engine.
C5_AiFailureFallsBack ==
    \A i \in ReqIds :
        (runs[i].ai_failed /\ runs[i].pc \in {"persist", "commit", "except"})
            => runs[i].result = MockResult

\* ------------------------------------------------------- the mock engine
\* The result the seed string alone determines.
OwnResult(seed_string) == MockAnalysis(MersenneTwister(Adler32(Utf8(seed_string))))

\* C6: every call returns the scores and the sampled phrases that come from
\* the generator seeded with its own seed string, whatever other calls are
\* in progress meanwhile.
C6_DrawsFromOwnSeed == last.valid => last.result = OwnResult(last.seed_string)

ScoresOf(r) == <<r.visual_score, r.ux_score, r.communication_score, r.overall_score, r.hireability_score>>

PhrasesOf(r) == <<r.detailed_feedback.visual.phrases, r.detailed_feedback.ux.phrases,
                  r.detailed_feedback.communication.phrases>>

\* C7: when a call returns that ran with no other call in progress, right
\* after such a call with the same seed string and the same fetched title and
\* description, its five scores and its sampled phrases are those of that call.
C7_SequentialRunsAgree ==
    [][(/\ last.valid /\ last.solo
        /\ last'.valid /\ last'.solo
        /\ last'.seed_string = last.seed_string
        /\ last'.meta = last.meta)
         => (ScoresOf(last'.result) = ScoresOf(last.result)
             /\ PhrasesOf(last'.result) = PhrasesOf(last.result))]_vars

\* The second of two such calls has returned, both with a URL and a fetched page.
C7_Witness == last.valid /\ last.repeat /\ last.source_url = Url1 /\ last.meta = FetchedMeta

\* 0.35 * visual + 0.40 * ux + 0.25 * communication, in hundredths
Weighted(r) == 35 * r.visual_score + 40 * r.ux_score + 25 * r.communication_score

\* C8: in every result visual, ux and communication are in 40..99,
\* hireability is in 42..99, overall is in 40..99, and overall is the weighted
\* sum 0.35 visual + 0.40 ux + 0.25 communication rounded to a whole number
\* (at most one half away from it).
C8_ScoreBounds ==
    last.valid =>
        LET r == last.result IN
        /\ r.visual_score \in 40..99
        /\ r.ux_score \in 40..99
        /\ r.communication_score \in 40..99
        /\ r.hireability_score \in 42..99
        /\ r.overall_score \in 40..99
        /\ 100 * r.overall_score - Weighted(r) \in -50..50

\* A result whose weighted sum lies exactly between two whole numbers.
C8_Witness == last.valid /\ Weighted(last.result) % 100 = 50

\* All five scores of r are within their bounds and every paragraph of
\* detailed_feedback has its three phrases.
CompleteAndBounded(r) ==
    /\ \A k \in 1..5 : ScoresOf(r)[k] \in 40..99
    /\ \A k \in 1..3 : Len(PhrasesOf(r)[k]) = 3

\* C9: the seed string of a call is its URL when it has one, else its seed
\* id when it has one, else "default-seed"; calls with one URL have one seed
\* string whatever their ids; a call with neither returns a complete result
\* with its scores in bounds.
C9_SeedString ==
    /\ \A i \in InFlight : calls[i].seed_string = calls[i].source_url
    /\ \A i, j \in InFlight :
          calls[i].source_url = calls[j].source_url => calls[i].seed_string = calls[j].seed_string
    /\ last.valid =>
          /\ last.source_url # None => last.seed_string = last.source_url
          /\ (last.source_url = None /\ last.seed_id # None) => last.seed_string = last.seed_id
          /\ (last.source_url = None /\ last.seed_id = None) =>
                (last.seed_string = "default-seed" /\ CompleteAndBounded(last.result))

\* A call with no URL and no id has returned, and two calls with one URL and
\* different ids are in progress.
C9_Witness ==
    /\ last.valid /\ last.source_url = None /\ last.seed_id = None
    /\ \E i, j \in InFlight :
          /\ calls[i].source_url = calls[j].source_url
          /\ calls[i].seed_id = Id1
          /\ calls[j].seed_id = Id2

\* A call returns in this step.
Returns == last' # last \/ \E i \in CallIds : calls[i].pc = "fetch" /\ calls'[i].pc = "idle"

\* C10: when a call returns, the generator has been reseeded from entropy:
\* it is not left in a seeded state by the call.
C10_ReseededOnReturn == [][Returns => rng' = Entropy]_vars

\* A call with a URL has returned while another call is still suspended.
C10_Witness == last.valid /\ last.source_url = Url1 /\ rng = Entropy /\ InFlight # {}

\* ------------------------------------------------------- provenance
\* C11: after a Gemini timeout the run completes and the result it persists
\* has ai_generated false, the label of the mock engine as model_used, and
\* the five scores within the bounds of the mock engine (40..99, hireability
\* 42..99); a persisted result has ai_generated true only when the Gemini call
\* returned a result (a JSON object, not an exception or a timeout).
MockBounds(row) ==
    /\ \A k \in {"visual_score", "ux_score", "communication_score", "overall_score"} :
          row[k] >= 40 /\ row[k] <= 99
    /\ row.hireability_score >= 42 /\ row.hireability_score <= 99

C12_PersistedScoresInRange ==
    persisted.done /\ persisted.row.filled =>
        \A k \in ScoreKeys :
            /\ persisted.row[k] >= 0 /\ persisted.row[k] <= 100
            /\ persisted.row.ai_generated /\ persisted.object[k].kind = "number" =>
                  persisted.row[k] = (IF persisted.object[k].value < 0 THEN 0
                                      ELSE IF persisted.object[k].value > 100 THEN 100
                                      ELSE persisted.object[k].value)

C12_Witness ==
    /\ persisted.done /\ persisted.row.filled /\ persisted.row.ai_generated
    /\ persisted.object["visual_score"] = Number(120) /\ persisted.row.visual_score = 100
    /\ persisted.object["ux_score"] = Number(-20) /\ persisted.row.ux_score = 0

\* C16: when the Gemini reply is a JSON object that lacks one or more of the
\* five score keys, the run falls back to the mock engine: what it persists
\* is the mock engine's result, not the AI result.
C16_MissingScoresFallBack ==
    persisted.done /\ persisted.reply = "json_object" /\ PresentKeys(persisted.object) # ScoreKeys =>
        /\ persisted.status = COMPLETED
        /\ persisted.row.ai_generated = FALSE
        /\ persisted.row.model_used = "PortLens-Enterprise-v3"

\* ------------------------------------------------------- feedback lists
\* C13: whatever the scores, the platform and the specialization, the
\* strengths, weaknesses and recommendations lists of the dict returned by
\* generate_enhanced_mock_analysis are each non-empty.
C13_ListsNonEmpty ==
    report.valid =>
        /\ Len(report.result.strengths) > 0
        /\ Len(report.result.weaknesses) > 0
        /\ Len(report.result.recommendations) > 0

Range(list) == {list[n] : n \in 1..Len(list)}

C13_Witness ==
    /\ report.valid
    /\ report.result.visual_score >= 75 /\ report.result.ux_score >= 75
    /\ report.result.communication_score >= 75
    /\ report.result.weaknesses = <<"generic: adding more quantitative outcomes">>

\* The paragraphs lines 587-617 can append, by category and kind of praise.
HighPraise ==
    [visual |-> {"visual: exceptional visual polish"},
     ux |-> {"ux: genuine user-centric thinking"},
     communication |-> {"communication: Storytelling is compelling"}]

MidPraise ==
    [visual |-> {"visual: layout is clean and functional", "visual: Fundamental design principles"},
     ux |-> {"ux: Problem definitions are solid"},
     communication |-> {}]

CategoryStrengths ==
    [visual |-> {"visual: exceptional visual polish", "visual: Behance project layout",
                 "visual: Shot composition", "visual: custom portfolio site",
                 "visual: Typographic hierarchy", "visual: layout is clean and functional",
                 "visual: Fundamental design principles", "visual: emerging understanding"},
     ux |-> {"ux: genuine user-centric thinking", "ux: mobile-specific UX patterns",
             "ux: responsive web design and dashboard UX", "ux: Research methodology",
             "ux: Problem definitions are solid"},
     communication |-> {"communication: Storytelling is compelling"}]

Categories == {"visual", "ux", "communication"}

CategoryScore(result, category) ==
    CASE category = "visual" -> result.visual_score
      [] category = "ux" -> result.ux_score
      [] category = "communication" -> result.communication_score

\* C17: in the strengths list returned by generate_enhanced_mock_analysis,
\* for each category (visual, ux, communication) a score of 80 or more gives
\* the category's high-praise paragraph, a score from 70 to 79 gives a
\* mid-praise paragraph of the category, and a score below 70 gives no
\* strength of the category, for every platform and specialization.
C17_StrengthTiers ==
    report.valid =>
        \A category \in Categories :
            LET score == CategoryScore(report.result, category)
                listed == Range(report.result.strengths)
            IN /\ score >= 80 => HighPraise[category] \cap listed # {}
               /\ score >= 70 /\ score < 80 => MidPraise[category] \cap listed # {}
               /\ score < 70 => CategoryStrengths[category] \cap listed = {}

\* C18: in the weaknesses list returned by generate_enhanced_mock_analysis,
\* each category whose score is below 75 has its weakness paragraph, for
\* every platform and specialization, and the generic paragraph on
\* quantitative outcomes is in the list exactly when no category score is
\* below 75.
CategoryWeakness ==
    [visual |-> "visual: Visual hierarchy could be strengthened",
     ux |-> "ux: Process documentation could go deeper",
     communication |-> "communication: clearer before/after impact metrics"]

C18_WeaknessPerCategory ==
    report.valid =>
        LET listed == Range(report.result.weaknesses) IN
        /\ \A category \in Categories :
              CategoryScore(report.result, category) < 75 => CategoryWeakness[category] \in listed
        /\ "generic: adding more quantitative outcomes" \in listed
              <=> \A category \in Categories : CategoryScore(report.result, category) >= 75

\* C19: for every platform and specialization the recommendations list
\* returned by generate_enhanced_mock_analysis has at most 6 entries and
\* holds the universal item, the items of the platform, the items of the
\* specialization, and the two closing items (social proof and the About
\* Section item on the value proposition).
C19_RecommendationsComposition ==
    report.valid =>
        LET listed == Range(report.result.recommendations)
            m == report.result.meta
        IN /\ Len(report.result.recommendations) <= 6
           /\ {"Outcome Focus", "Add Case Studies"} \cap listed # {}
           /\ Range(PlatformRecommendations(m.platform)) \subseteq listed
           /\ Range(SpecializationRecommendations(m.specialization)) \subseteq listed
           /\ {"Social Proof", "About Section"} \subseteq listed

\* ------------------------------------------------------- session and waits
\* The run waits on the network at this position: in the Gemini call, or in
\* the call of the mock engine for a portfolio with a URL (metadata fetch).
WaitsOnNetwork(r) ==
    \/ r.pc = "gemini"
    \/ r.pc = "mock" /\ StrTruthy(source_url[r.pid])

\* C20: while a run waits on network I/O (the Gemini call, the metadata fetch
\* of the mock engine) its session has no uncommitted write outstanding, runs
\* that scraped images and flushed new file records included.
C20_NoWriteWhileWaiting ==
    \A i \in ReqIds : WaitsOnNetwork(runs[i]) => ~runs[i].new_files

\* ------------------------------------------------------- progress
\* C15: in every response of start_analysis and of get_analysis_status, for
\* every status a portfolio can have (pending, processing, completed,
\* failed), the progress reported is 0, 50 or 100.
CoarseProgress(response) ==
    Len(response.progress) = 1 /\ response.progress[1] \in {0, 50, 100}

C15_ProgressCoarse ==
    /\ CoarseProgress(StartAnalysisResponse)
    /\ \A p \in Portfolios : CoarseProgress(get_analysis_status(status[p]))

\* ------------------------------------------------------- the analysis row
\* Run i completes at this step: its commit of line 164 succeeds.
Completes(i) == run_commit(i) /\ ~InsertFails(runs[i])

\* C14: after any sequence of runs of a portfolio there is one analysis
\* record for it (a run that completes leaves a record, created by the first
\* run and reused afterwards), and every result field of the record comes
\* from the run that completed last: when a run completes, the record holds
\* that run's result.
C14_RowFromLastCompletedRun ==
    [][\A i \in ReqIds : Completes(i) =>
          /\ analysis'[runs[i].pid].exists
          /\ analysis'[runs[i].pid] = AnalysisRow(runs[i].result)]_vars

\* ------------------------------------------------------- metadata fetch
\* C21: when the metadata fetch of the mock engine fails, the call still
\* returns a full result (scores and the three lists), and the title and the
\* description in the result's meta are empty.
C21_FetchFailureEmptyMeta ==
    report.valid /\ report.fetch = "failed" =>
        /\ report.result.model_used = "PortLens-Enterprise-v3"
        /\ Len(report.result.strengths) > 0
        /\ Len(report.result.recommendations) > 0
        /\ report.result.meta.title = ""
        /\ report.result.meta.description = ""

\* ------------------------------------------------------- phrase pools
\* C22: in generate_paragraph the pool selected by category and score tier
\* always has at least as many entries as are sampled, so random.sample never
\* raises, and every paragraph of detailed_feedback is built from 2 or 3
\* distinct phrases of the pool selected.
SampledFromPool(paragraph) ==
    LET n == Len(paragraph.phrases) IN
    /\ n \in {2, 3}
    /\ n <= paragraph.pool
    /\ \A k \in 1..n : paragraph.phrases[k] >= 0 /\ paragraph.phrases[k] < paragraph.pool
    /\ \A j, k \in 1..n : j # k => paragraph.phrases[j] # paragraph.phrases[k]

C22_SampleWithinPool ==
    last.valid =>
        \A category \in {"visual", "ux", "communication"} :
            LET paragraph == last.result.detailed_feedback[category] IN
            /\ paragraph.pool = PoolSize[category][paragraph.tier]
            /\ SampledFromPool(paragraph)

C22_Witness ==
    /\ last.valid
    /\ last.result.detailed_feedback.communication.tier = "low"
    /\ last.result.detailed_feedback.communication.phrases = <<9, 4, 7>>
    /\ last.result.detailed_feedback.visual.tier = "high"

\* ------------------------------------------------------- seniority bands
\* The five bands of the overall score, highest first.
Bands ==
    <<[from |-> 90, to |-> 100, seniority |-> "Lead/Principal",
       industry_benchmark |-> "Comparable to Senior/Lead designers at Stripe, Figma, or Linear."],
      [from |-> 80, to |-> 89, seniority |-> "Senior",
       industry_benchmark |-> "Comparable to Senior designers at well-funded Series B+ startups."],
      [from |-> 70, to |-> 79, seniority |-> "Mid-Level",
       industry_benchmark |-> "Comparable to Mid-level designers at established tech companies."],
      [from |-> 60, to |-> 69, seniority |-> "Junior/Mid",
       industry_benchmark |-> "Comparable to Junior/Mid designers at early-stage startups."],
      [from |-> 0, to |-> 59, seniority |-> "Junior",
       industry_benchmark |-> "Entry-level, suitable for internships or junior roles."]>>

\* C23: the seniority label and the industry benchmark depend on the overall
\* score alone, through five bands (from 90 Lead/Principal, from 80 Senior,
\* from 70 Mid-Level, from 60 Junior/Mid, below Junior): every overall score
\* from 0 to 100 is in exactly one band, and gets that band's label and
\* benchmark.
C23_SeniorityBands ==
    probe.op = "seniority" =>
        LET matching == {b \in 1..Len(Bands) :
                            probe.input >= Bands[b].from /\ probe.input <= Bands[b].to}
        IN /\ Cardinality(matching) = 1
           /\ \A b \in matching :
                /\ probe.output.seniority = Bands[b].seniority
                /\ probe.output.industry_benchmark = Bands[b].industry_benchmark

C23_Witness == probe.op = "seniority" /\ probe.input = 60 /\ probe.output.seniority = "Junior/Mid"

\* ------------------------------------------------------- tags
\* The keyword sets of the specializations, in the order they are tested.
SpecializationOrder == <<"mobile", "web", "branding", "research", "motion">>

SpecializationKeywords ==
    [mobile |-> {"mobile", "ios", "android", "app"},
     web |-> {"web", "saas", "dashboard", "webapp"},
     branding |-> {"brand", "identity", "logo", "visual identity"},
     research |-> {"ux research", "user research", "usability"},
     motion |-> {"3d", "motion", "animation", "video"}]

\* The first entry of `order` whose keyword set `matches`, else `default`.
FirstMatch(order, matches(_), default) ==
    LET hits == {k \in 1..Len(order) : matches(order[k])} IN
    IF hits = {} THEN default
    ELSE order[CHOOSE k \in hits : \A j \in hits : k <= j]

\* C24: the specialization is found by testing the keyword sets on the
\* lower-cased title and description in the order mobile, web, branding,
\* research, motion; the first set with a keyword in the text wins (a text
\* with a mobile and a web keyword is mobile), and the tag is general when
\* no set has one.
C24_SpecializationFirstMatch ==
    probe.op = "specialization" =>
        LET Matches(tag) == SpecializationKeywords[tag] \cap probe.input # {} IN
        probe.output = FirstMatch(SpecializationOrder, Matches, "general")

C24_Witness ==
    /\ probe.op = "specialization"
    /\ {"mobile", "web", "brand"} \subseteq probe.input
    /\ probe.output = "mobile"

\* The words of the platforms, in the order they are tested.
PlatformOrder == <<"behance", "dribbble", "linkedin", "notion", "custom">>

PlatformDomains ==
    [behance |-> {"behance.net"},
     dribbble |-> {"dribbble.com"},
     linkedin |-> {"linkedin.com"},
     notion |-> {"notion.so", "notion.site"},
     custom |-> {"framer.com", "webflow.io", "squarespace"}]

\* C25: the platform is always one of behance, dribbble, linkedin, notion,
\* custom, generic; it is chosen by the domain substrings of the lower-cased
\* URL in the order behance, dribbble, linkedin, notion, website builder
\* (custom), and is generic when there is no URL or no substring occurs.
C25_PlatformClosedSet ==
    probe.op = "platform" =>
        LET Matches(tag) == PlatformDomains[tag] \cap probe.input.words # {} IN
        /\ probe.output \in {"behance", "dribbble", "linkedin", "notion", "custom", "generic"}
        /\ probe.input.has_url => probe.output = FirstMatch(PlatformOrder, Matches, "generic")
        /\ ~probe.input.has_url => probe.output = "generic"

C25_Witness ==
    /\ probe.op = "platform"
    /\ {"behance.net", "dribbble.com", "webflow.io"} \subseteq probe.input.words
    /\ probe.output = "behance"

\* C26: the pool selected for a category is monotone in the category's
\* score: a higher score never selects a lower tier (low below 70, mid from
\* 70, high from 80), and a score raised from below 80 to 80 or more selects
\* the high pool.
TierRank(tier) == CASE tier = "low" -> 0 [] tier = "mid" -> 1 [] tier = "high" -> 2

C26_TierMonotone ==
    probe.op = "pool" =>
        LET lower == probe.input[1]
            higher == probe.input[2]
        IN /\ TierRank(probe.output[1]) <= TierRank(probe.output[2])
           /\ lower < 80 /\ higher >= 80 => probe.output[1] # "high" /\ probe.output[2] = "high"
           /\ probe.output[1] = "low" <=> lower < 70
           /\ probe.output[1] = "mid" <=> lower >= 70 /\ lower < 80

C26_Witness ==
    probe.op = "pool" /\ probe.input = <<69, 80>> /\ probe.output = <<"low", "high">>

\* ------------------------------------------------------- verdict
\* C30: in every result of the mock engine hireability_score differs from
\* overall_score by at most 3, so the verdict tier and the closing sentence
\* agree: a Top-Tier verdict (hireability 85 or more) comes with an overall
\* score of 80 or more (exceptional promise, Senior or above), and an overall
\* score below 70 (foundational skills) comes with the Developing verdict.
C30_VerdictConsistent ==
    last.valid =>
        LET overall == last.result.overall_score
            hireability == last.result.hireability_score
        IN /\ hireability - overall <= 3 /\ overall - hireability <= 3
           /\ VerdictQuality(hireability) = "Top-Tier" =>
                 /\ overall >= 80
                 /\ VerdictClosing(overall) = "exceptional promise and immediate hire potential"
                 /\ Seniority(overall) \in {"Senior", "Lead/Principal"}
           /\ overall < 70 =>
                 /\ VerdictClosing(overall) = "foundational skills ready for mentorship"
                 /\ VerdictQuality(hireability) = "Developing"

C30_Witness ==
    /\ last.valid
    /\ last.result.hireability_score - last.result.overall_score = 3
    /\ VerdictQuality(last.result.hireability_score) = "Top-Tier"
    /\ last.result.overall_score < 85

\* ------------------------------------------------------- completed
\* C27: in every committed state a portfolio whose status is completed has
\* an analysis record with its five scores set, and status completed is only
\* ever committed by the commit of a run that also carries its result.
C27_CompletedHasAnalysis ==
    [][\A p \in Portfolios :
          /\ status[p] = COMPLETED => analysis[p].exists /\ analysis[p].filled
          /\ status'[p] = COMPLETED => analysis'[p].exists /\ analysis'[p].filled
          /\ status[p] # COMPLETED /\ status'[p] = COMPLETED =>
                \E i \in ReqIds : Completes(i) /\ runs[i].pid = p /\ runs[i].result.type = "dict"]_vars

C27_Witness ==
    \E p \in Portfolios :
        /\ status[p] = COMPLETED
        /\ analysis[p].filled /\ analysis[p].ai_generated
        /\ \A i \in ReqIds : runs[i].pc = "none"
        /\ phase = "serving"

\* C28: when a run ends in failure the analysis data of the portfolio is as
\* it was before the run: a result persisted earlier keeps its fields and no
\* empty or partly filled analysis record is committed with the failed
\* status.
C28_FailureLeavesAnalysis ==
    [][\A i \in ReqIds : run_except(i) => analysis' = analysis]_vars

\* C29: a start request for a portfolio whose status is read as processing
\* is refused (HTTP 400), one for a portfolio that does not exist or belongs
\* to another user is refused (HTTP 404); a refused request changes no
\* status and queues no run, and a run is only queued for a request that
\* passed both checks.
C29_RefusedRequestsChangeNothing ==
    [][/\ \A i \in ReqIds, p \in Portfolios :
            start_analysis(i, p) /\ status[p] = PROCESSING =>
                /\ reqs'[i].pc = "rejected"
                /\ status' = status /\ runs' = runs /\ analysis' = analysis
       /\ \A i \in ReqIds, user \in Users, portfolio_id \in Portfolios \cup {MissingId} :
            start_analysis_not_found(i, user, portfolio_id) =>
                /\ reqs'[i].pc = "not_found"
                /\ status' = status /\ runs' = runs /\ analysis' = analysis
       /\ \A i \in ReqIds :
            runs[i].pc # "queued" /\ runs'[i].pc = "queued" =>
                  /\ reqs[i].pc = "flushed"
                  /\ reqs[i].read # PROCESSING
                  /\ Owner(reqs[i].pid) = "owner"]_vars

C29_Witness ==
    \E i, j \in ReqIds :
        /\ reqs[i].pc = "rejected" /\ reqs[i].read = PROCESSING
        /\ status[reqs[i].pid] = PROCESSING
        /\ runs[i].pc = "none"
        /\ reqs[j].pc = "not_found" /\ runs[j].pc = "none"

====
